---- MODULE Spec2Model ----
(***************************************************************************)
(* A model of solver.py, the brute-force solver of the "Drive Ya Nuts"     *)
(* puzzle.  Python lists and deques are modelled as functions over         *)
(* 0..n-1, so that every index in the model is the index in the source.    *)
(***************************************************************************)
EXTENDS Integers, Sequences, FiniteSets, TLC

\* solver.py:23
NUM_SIDES == 6

\* Fuel of the `while True` loop of align_to_center: a loop that has not
\* found its stop value after MaxRot rotations is taken to run forever.
MaxRot == 8

(***************************************************************************)
(* Python list primitives used by the program.                             *)
(***************************************************************************)
len(l) == Cardinality(DOMAIN l)

\* a list literal [a, b, ...]
List(s) == [k \in 0..(Len(s) - 1) |-> s[k + 1]]

\* a + b
Concat(a, b) ==
    [k \in 0..(len(a) + len(b) - 1) |-> IF k < len(a) THEN a[k] ELSE b[k - len(a)]]

\* del l[i]
Del(l, i) == [k \in 0..(len(l) - 2) |-> IF k < i THEN l[k] ELSE l[k + 1]]

\* l[1:]
Tail1(l) == [k \in 0..(len(l) - 2) |-> l[k + 1]]

\* itertools.permutations(l): every ordering of l, in lexicographic order of
\* the positions of l.
RECURSIVE permutations(_)
RECURSIVE permutations_from(_, _)
permutations(l) ==
    IF len(l) = 0 THEN List(<< List(<<>>) >>) ELSE permutations_from(l, 0)

permutations_from(l, j) ==
    IF j >= len(l) THEN List(<<>>)
    ELSE LET rest == permutations(Del(l, j))
             head == [n \in DOMAIN rest |-> Concat(List(<<l[j]>>), rest[n])]
         IN  Concat(head, permutations_from(l, j + 1))

\* a rotation by one step to the left
rotate_left(d) == [k \in DOMAIN d |-> d[(k + 1) % len(d)]]

\* a shift that drops the wrapped-around side
rotate_nowrap(d) == [k \in DOMAIN d |-> d[IF k = 0 THEN 0 ELSE k - 1]]

\* collections.deque.rotate(): one step to the right
rotate(d) == [k \in DOMAIN d |-> d[(k - 1) % len(d)]]

(***************************************************************************)
(* The piece table.                                                        *)
(***************************************************************************)
PiecesTable ==
    List(<< List(<<1, 5, 3, 2, 6, 4>>),
            List(<<1, 4, 2, 3, 5, 6>>),
            List(<<1, 3, 5, 4, 2, 6>>),
            List(<<1, 3, 5, 2, 4, 6>>),
            List(<<1, 2, 3, 4, 5, 6>>),
            List(<<1, 2, 5, 6, 3, 4>>),
            List(<<1, 6, 5, 4, 3, 2>>) >>)

NUM_PIECES == len(PiecesTable)

VARIABLES
    pieces,     \* the global piece table
    pc,         \* where main (or the consumer of the generator) stands
    ci,         \* necklace_perms: the loop variable i
    t,          \* necklace_perms: trailers of gen already consumed for this i
    layout,     \* main: the layout the generator yielded last
    state,      \* main: the board state
    pass,       \* main: passes of `for _ in range(NUM_SIDES)` completed
    rots,       \* single-step rotations the last align_to_center did, per position
    result,     \* what the last check(state) returned
    nyield,     \* layouts yielded so far
    nchecks,    \* evaluations of check so far
    out,        \* the lines printed so far
    ops,        \* the operations run on the current candidate, in order
    seen,       \* the center orientations checked for the current candidate
    yielded     \* list(necklace_perms(pieces)) as collected so far

vars == <<pieces, pc, ci, t, layout, state, pass, rots, result, nyield,
          nchecks, out, ops, seen, yielded>>

\* d.rotate() applied n times
RECURSIVE rotate_n(_, _)
rotate_n(d, n) == IF n <= 0 THEN d ELSE rotate_n(rotate(d), n - 1)

(***************************************************************************)
(* init_state                                                              *)
(***************************************************************************)
\* state.append(piece): the board shares its lists with the layout, so a
\* piece enters the board in the orientation the previous board left it in
init_state_shared(lay) ==
    [k \in DOMAIN lay |->
        IF \E j \in DOMAIN state : \E n \in 0..(NUM_SIDES - 1) : state[j] = rotate_n(lay[k], n)
        THEN state[CHOOSE j \in DOMAIN state :
                      \E n \in 0..(NUM_SIDES - 1) : state[j] = rotate_n(lay[k], n)]
        ELSE lay[k]]

\* a fresh deque per piece of the layout, in the layout's order
init_state(lay) == [k \in 0..(len(lay) - 1) |-> [s \in 0..(len(lay[k]) - 1) |-> lay[k][s]]]

(***************************************************************************)
(* necklace_perms                                                          *)
(***************************************************************************)
\* modified_board = pieces; del modified_board[i] without taking the center out
modified_board_keep(ps, i) == ps

\* modified_board = pieces[:]; del modified_board[i]
modified_board(ps, i) == Del(ps, i)

\* gen = itertools.permutations(modified_board[1:])
trailers(ps, i) == permutations(Tail1(modified_board(ps, i)))

\* every outer ring with no piece pinned
ring_orders_unpinned(ps, i) == permutations(modified_board(ps, i))

\* [modified_board[0]] + list(trailer) for every trailer of gen, in gen's order
ring_orders(ps, i) ==
    LET gen == trailers(ps, i)
    IN  [n \in DOMAIN gen |-> Concat(List(<<modified_board(ps, i)[0]>>), gen[n])]

\* [center] + [modified_board[0]] + list(trailer), for the n-th trailer of gen
layout_at(ps, i, n) == Concat(List(<<ps[i]>>), ring_orders(ps, i)[n])

\* The place of the generator's next yield: the next trailer of this i, or
\* the first trailer of the next i when gen is exhausted.
GenPos == IF t < len(ring_orders(pieces, ci)) THEN <<ci, t>> ELSE <<ci + 1, 0>>

(***************************************************************************)
(* get_center_side, check_piece, check                                     *)
(***************************************************************************)
\* the side of the center one further round
get_center_side_next(piecenum) == piecenum % NUM_SIDES

get_center_side(piecenum) == piecenum - 1

\* compares with the adjacent piece's side 0, the one facing the center
check_piece_leading(st, number) ==
    LET piece == st[number]
        right == st[IF number < NUM_SIDES THEN number + 1 ELSE 1]
    IN  piece[5] = right[0]

\* compares every piece with piece 1, never wrapping to it
check_piece_nowrap(st, number) ==
    LET piece == st[number]
        right == st[IF number < NUM_SIDES THEN number + 1 ELSE number]
    IN  piece[5] = right[1]

check_piece(st, number) ==
    LET piece == st[number]
        right == st[IF number < NUM_SIDES THEN number + 1 ELSE 1]
    IN  piece[5] = right[1]

\* for i in range(1, NUM_PIECES): the loop from i on
RECURSIVE check_from(_, _)
check_from(st, i) ==
    IF i >= NUM_PIECES THEN TRUE
    ELSE IF ~check_piece(st, i) THEN FALSE
    ELSE check_from(st, i + 1)

\* returns from inside the loop, after the first piece
check_first_only(st) == check_piece(st, 1)

check(st) == check_from(st, 1)

\* print_state: the seven bracketed sequences of one line, positions 0..6
print_state(st) ==
    [p \in 1..len(st) |-> [s \in 1..len(st[p - 1]) |-> st[p - 1][s - 1]]]

(***************************************************************************)
(* rotate_center, align_to_center                                          *)
(***************************************************************************)
\* turns the center the other way
rotate_center_left(st) == [st EXCEPT ![0] = rotate_left(@)]

rotate_center(st) == [st EXCEPT ![0] = rotate(@)]

\* the `while True` loop on one piece: the piece when the loop breaks and the
\* rotations it took (MaxRot: the loop never breaks)
RECURSIVE align_piece(_, _, _)
align_piece(piece, stop_value, n) ==
    IF piece[0] = stop_value THEN [piece |-> piece, n |-> n]
    ELSE IF n >= MaxRot THEN [piece |-> piece, n |-> n]
    ELSE align_piece(rotate(piece), stop_value, n + 1)

\* for pieceidx in range(1, NUM_PIECES): the loop from pieceidx on, with the
\* rotation counts so far
RECURSIVE align_from(_, _, _)
align_from(st, pieceidx, counts) ==
    IF pieceidx >= NUM_PIECES THEN [state |-> st, rots |-> counts]
    ELSE LET center     == st[0]
             stop_value == center[get_center_side(pieceidx)]
             r          == align_piece(st[pieceidx], stop_value, 0)
         IN  align_from([st EXCEPT ![pieceidx] = r.piece], pieceidx + 1,
                        [counts EXCEPT ![pieceidx] = r.n])

align_to_center(st) == align_from(st, 1, [k \in 1..(NUM_PIECES - 1) |-> 0])

(***************************************************************************)
(* main                                                                    *)
(***************************************************************************)
\* leaves the pass loop at the first pass that was reported
more_passes_break(done) == done < NUM_SIDES /\ ~result

\* for _ in range(NUM_SIDES)
more_passes(done) == done < NUM_SIDES

Init ==
    /\ pieces = PiecesTable
    /\ pc = "gen"
    /\ ci = 0
    /\ t = 0
    /\ layout = <<>>
    /\ state = <<>>
    /\ pass = 0
    /\ rots = <<>>
    /\ result = FALSE
    /\ nyield = 0
    /\ nchecks = 0
    /\ out = <<>>
    /\ ops = <<>>
    /\ seen = <<>>
    /\ yielded = <<>>

\* for layout in necklace_perms(pieces): state = init_state(layout)
Yield ==
    /\ pc = "gen"
    /\ GenPos[1] < NUM_PIECES
    /\ ci' = GenPos[1]
    /\ t' = GenPos[2] + 1
    /\ layout' = layout_at(pieces, GenPos[1], GenPos[2])
    /\ state' = init_state(layout')
    /\ nyield' = nyield + 1
    /\ pass' = 0
    /\ ops' = <<>>
    /\ seen' = <<>>
    /\ pc' = IF more_passes(0) THEN "align" ELSE "gen"
    /\ UNCHANGED <<pieces, rots, result, nchecks, out, yielded>>

\* align_to_center(state)
Align ==
    /\ pc = "align"
    /\ LET r == align_to_center(state)
       IN  /\ state' = r.state
           /\ rots' = r.rots
    /\ ops' = Append(ops, "align")
    /\ pc' = "check"
    /\ UNCHANGED <<pieces, ci, t, layout, pass, result, nyield, nchecks, out, seen, yielded>>

\* if check(state): print_state(state)
Check ==
    /\ pc = "check"
    /\ result' = check(state)
    /\ nchecks' = nchecks + 1
    /\ seen' = Append(seen, state[0])
    /\ out' = IF result' THEN Append(out, print_state(state)) ELSE out
    /\ ops' = IF result' THEN ops \o <<"check", "print">> ELSE Append(ops, "check")
    /\ pc' = "rotate"
    /\ UNCHANGED <<pieces, ci, t, layout, state, pass, rots, nyield, yielded>>

\* rotate_center(state), and the end of one pass of the loop
RotateCenter ==
    /\ pc = "rotate"
    /\ state' = rotate_center(state)
    /\ pass' = pass + 1
    /\ ops' = Append(ops, "rotate")
    /\ pc' = IF more_passes(pass') THEN "align" ELSE "gen"
    /\ UNCHANGED <<pieces, ci, t, layout, rots, result, nyield, nchecks, out, seen, yielded>>

\* the generator is exhausted: main returns
Finish ==
    /\ pc = "gen"
    /\ GenPos[1] >= NUM_PIECES
    /\ pc' = "done"
    /\ UNCHANGED <<pieces, ci, t, layout, state, pass, rots, result, nyield,
                   nchecks, out, ops, seen, yielded>>

Next == Yield \/ Align \/ Check \/ RotateCenter \/ Finish

Spec == Init /\ [][Next]_vars

(***************************************************************************)
(* The generator consumed on its own: list(necklace_perms(pieces)).        *)
(***************************************************************************)
InitGen ==
    /\ pieces = PiecesTable
    /\ pc = "collect"
    /\ ci = 0
    /\ t = 0
    /\ layout = <<>>
    /\ state = <<>>
    /\ pass = 0
    /\ rots = <<>>
    /\ result = FALSE
    /\ nyield = 0
    /\ nchecks = 0
    /\ out = <<>>
    /\ ops = <<>>
    /\ seen = <<>>
    /\ yielded = <<>>

Collect ==
    /\ pc = "collect"
    /\ GenPos[1] < NUM_PIECES
    /\ ci' = GenPos[1]
    /\ t' = GenPos[2] + 1
    /\ layout' = layout_at(pieces, GenPos[1], GenPos[2])
    /\ nyield' = nyield + 1
    /\ yielded' = Append(yielded, layout')
    /\ UNCHANGED <<pieces, pc, state, pass, rots, result, nchecks, out, ops, seen>>

Exhausted ==
    /\ pc = "collect"
    /\ GenPos[1] >= NUM_PIECES
    /\ pc' = "collected"
    /\ UNCHANGED <<pieces, ci, t, layout, state, pass, rots, result, nyield,
                   nchecks, out, ops, seen, yielded>>

NextGen == Collect \/ Exhausted

SpecGen == InitGen /\ [][NextGen]_vars

(***************************************************************************)
(* Properties of the generator.                                            *)
(***************************************************************************)
\* every piece of the table stands at exactly one of the 7 positions
IsBijection(lay) ==
    /\ DOMAIN lay = 0..(NUM_PIECES - 1)
    /\ \A j \in DOMAIN pieces : Cardinality({k \in DOMAIN lay : lay[k] = pieces[j]}) = 1

\* C1: necklace_perms over the built-in table yields exactly 840
\* assignments, each placing every one of the 7 pieces at exactly one of the
\* 7 positions, and yields no assignment twice.
C1_GeneratorYields840Bijections ==
    /\ \A n \in 1..Len(yielded) : IsBijection(yielded[n])
    /\ Cardinality({yielded[n] : n \in 1..Len(yielded)}) = Len(yielded)
    /\ Len(yielded) <= 840
    /\ pc = "collected" => Len(yielded) = 840

C1_Witness ==
    /\ pc = "collected"
    /\ Len(yielded) = 840
    /\ yielded[1] # yielded[840]

\* g and a have the same center, and the outer ring of g is a cyclic shift of
\* the outer ring of a
SameUpToRingRotation(g, a) ==
    /\ DOMAIN g = DOMAIN a
    /\ g[0] = a[0]
    /\ \E s \in 0..(NUM_SIDES - 1) :
           \A i \in 1..NUM_SIDES : g[i] = a[((i - 1 + s) % NUM_SIDES) + 1]

\* the 7! assignments of the pieces to the positions 0..6
AllAssignments ==
    {[k \in 0..(NUM_PIECES - 1) |-> pieces[f[k]]] : f \in Permutations(0..(NUM_PIECES - 1))}

\* C2: the generator covers every arrangement up to rotation of the outer
\* ring without repetition: no two yielded assignments are the same up to a
\* rotation of the ring, and each of the 7! assignments is the same up to a
\* rotation of the ring as exactly one yielded assignment.
C2_CoversEveryArrangementOnce ==
    /\ \A n \in 1..(Len(yielded) - 1) :
           ~SameUpToRingRotation(yielded[n], yielded[Len(yielded)])
    /\ pc = "collected" =>
           \A a \in AllAssignments :
               Cardinality({n \in 1..Len(yielded) : SameUpToRingRotation(yielded[n], a)}) = 1

\* an assignment the generator never yields, covered by a rotation of its ring
C2_Witness ==
    /\ pc = "collected"
    /\ LET a == [k \in 0..(NUM_PIECES - 1) |->
                    IF k = 0 THEN pieces[0] ELSE pieces[((k + 1) % NUM_SIDES) + 1]]
       IN  /\ a \in AllAssignments
           /\ \A n \in 1..Len(yielded) : yielded[n] # a
           /\ \E n \in 1..Len(yielded) : SameUpToRingRotation(yielded[n], a)

(***************************************************************************)
(* Properties of the run of main.                                          *)
(***************************************************************************)
\* the outer position next to i in the ring
Neighbour(i) == IF i = NUM_SIDES THEN 1 ELSE i + 1

\* the pieces of the table in every orientation
Orientations ==
    {rotate_n(pieces[j], n) : j \in DOMAIN pieces, n \in 0..(NUM_SIDES - 1)}

\* C3 (as the code has it): check(state) is True exactly when, for every
\* outer position i in 1..6, side 5 of the piece at i equals side 1 of the
\* piece at the next outer position (position 1 after position 6); the
\* center piece takes no part in it.
C3_CheckComparesSide5WithSide1 ==
    pc = "rotate" =>
        /\ result = (\A i \in 1..NUM_SIDES : state[i][5] = state[Neighbour(i)][1])
        /\ \A c \in Orientations : check([state EXCEPT ![0] = c]) = result

C3_Witness ==
    /\ pc = "rotate"
    /\ result
    /\ \A i \in 1..NUM_SIDES : state[i][5] = state[Neighbour(i)][1]
    /\ \E i \in 1..NUM_SIDES : state[i][5] # state[Neighbour(i)][0]

\* C3 as claimed: check(state) is True exactly when the trailing marking
\* (index 5) of every outer position equals the leading marking (index 0) of
\* the next outer position.
C3_AsClaimed ==
    pc = "rotate" =>
        result = (\A i \in 1..NUM_SIDES : state[i][5] = state[Neighbour(i)][0])

\* C4: at every evaluation of check, align_to_center has returned after at
\* most 6 single-step rotations of each outer piece, and every outer
\* position i holds a piece whose side 0 is the center's side i-1.
C4_AlignedWithinSixRotations ==
    pc \in {"check", "rotate"} =>
        \A i \in 1..NUM_SIDES :
            /\ rots[i] <= NUM_SIDES
            /\ state[i][0] = state[0][i - 1]

C4_Witness ==
    /\ pc = "check"
    /\ \E i \in 1..NUM_SIDES : rots[i] = NUM_SIDES - 1
    /\ \A i \in 1..NUM_SIDES : state[i][0] = state[0][i - 1]

\* C5: the run of main over the built-in table reports at least one
\* solution.
C5_AtLeastOneSolution == pc = "done" => Len(out) >= 1

C5_Witness ==
    /\ pc = "rotate"
    /\ result
    /\ Len(out) >= 1
    /\ out[Len(out)] = print_state(state)

\* C6: over the whole run of main, print_state is called exactly once.
C6_ExactlyOneSolution ==
    /\ Len(out) <= 1
    /\ pc = "done" => Len(out) = 1

C6_Witness ==
    /\ pc = "done"
    /\ nchecks = 5040
    /\ Len(out) = 1
    /\ out[1][1] = <<1, 3, 5, 4, 2, 6>>

\* C7: rotation is a cyclic shift of order 6: r single-step rotations of a
\* piece of the table followed by (6 - r) mod 6 more give the piece back,
\* for every r in 0..6; and the center is back in the layout's orientation
\* after the 6 rotate_center calls of a candidate.
C7_RotationHasOrderSix ==
    /\ \A j \in DOMAIN pieces : \A r \in 0..NUM_SIDES :
           rotate_n(rotate_n(pieces[j], r), (NUM_SIDES - r) % NUM_SIDES) = pieces[j]
    /\ (pc = "gen" /\ nyield > 0) => state[0] = layout[0]

C7_Witness ==
    /\ pc = "gen"
    /\ pass = NUM_SIDES
    /\ state[0] = layout[0]
    /\ \A r \in 1..(NUM_SIDES - 1) : rotate_n(layout[0], r) # layout[0]

\* the operations of a candidate that are not reports
Unreported(s) == SelectSeq(s, LAMBDA o : o # "print")

PassOps == <<"align", "check", "rotate">>

\* C8: every candidate gets exactly 6 passes, each align, check, rotate
\* center in this order, whatever the checks return; the run has made
\* 840 x 6 = 5040 checks when it finishes.
C8_SixPassesPerCandidate ==
    /\ \A k \in 1..Len(Unreported(ops)) : Unreported(ops)[k] = PassOps[((k - 1) % 3) + 1]
    /\ Len(Unreported(ops)) <= 3 * NUM_SIDES
    /\ (pc \in {"gen", "done"} /\ nyield > 0) => Len(Unreported(ops)) = 3 * NUM_SIDES
    /\ nchecks = (IF nyield = 0 THEN 0 ELSE NUM_SIDES * (nyield - 1) + Len(seen))
    /\ pc = "done" => (nyield = 840 /\ nchecks = 5040)

\* a candidate with a reported pass, all of whose passes ran
C8_Witness ==
    /\ pc = "gen"
    /\ \E k \in 1..Len(ops) : ops[k] = "print" /\ k < Len(ops) - 1
    /\ Len(Unreported(ops)) = 3 * NUM_SIDES

\* the layout with the same center in which the outer piece at position i
\* stands at position ((i - 1 - k) mod 6) + 1
MovedRing(lay, k) ==
    [j \in DOMAIN lay |->
        IF j = 0 THEN lay[0] ELSE lay[((j - 1 + k) % NUM_SIDES) + 1]]

\* C9: the check of pass k of a candidate is the check of pass 0 of the
\* layout with its outer ring moved by k positions: the aligned board of
\* pass k holds at every outer position i the piece, in the orientation,
\* that the aligned board of the moved layout holds at ((i - 1 - k) mod 6) + 1,
\* so both checks return the same; and the passes of one candidate show
\* pairwise different orientations of the center, 6 in all.
C9_CenterRotationIsRingRotation ==
    /\ pc = "rotate" =>
           LET b == align_to_center(init_state(MovedRing(layout, pass))).state
           IN  /\ result = check(b)
               /\ \A i \in 1..NUM_SIDES :
                      b[((i - 1 - pass) % NUM_SIDES) + 1] = state[i]
    /\ \A m, n \in 1..Len(seen) : m # n => seen[m] # seen[n]
    /\ (pc = "gen" /\ nyield > 0) => Len(seen) = NUM_SIDES

\* a later pass of a candidate, with some adjacent pair matching
C9_Witness ==
    /\ pc = "rotate"
    /\ pass > 0
    /\ Len(seen) = pass + 1
    /\ MovedRing(layout, pass) # layout
    /\ \E i \in 1..NUM_SIDES : check_piece(state, i)
    /\ \A i \in 1..NUM_SIDES :
           MovedRing(layout, pass)[((i - 1 - pass) % NUM_SIDES) + 1] = layout[i]

\* C10: no state is shared across candidates: the piece table keeps its
\* marking sequences, and the board of every candidate starts with each
\* piece of its layout in the orientation the table gives it.
C10_FreshBoardPerCandidate ==
    /\ pieces = PiecesTable
    /\ (pc = "align" /\ pass = 0) =>
           \A k \in DOMAIN layout :
               /\ state[k] = layout[k]
               /\ \E j \in DOMAIN PiecesTable : state[k] = PiecesTable[j]

\* the board of a later candidate, after the earlier ones rotated pieces
C10_Witness ==
    /\ pc = "align"
    /\ pass = 0
    /\ nyield > 1
    /\ \E i \in 1..NUM_SIDES : rots[i] > 0
    /\ \A k \in DOMAIN layout : state[k] = layout[k]

====
